---- MODULE Spec2Model ----
(***************************************************************************)
(* Model of analyze_stocks_complex_with_scoring_consolidated               *)
(* (src/stock_analyzer_app.py, lines 28-202): the per-ticker loop that     *)
(* cleans the indicator table, classifies the volatility regime, adjusts   *)
(* the weights and thresholds, scores the nine conditions, classifies the  *)
(* signal and appends one record per ticker.                               *)
(*                                                                         *)
(* Representation.  The float literals of the source (0.3, 0.25, 1.2 ...)  *)
(* are held as exact decimals in thousandths: 0.3 is 300, a product by 1.2 *)
(* is (x * 12) \div 10.  IEEE rounding of the sums is not modelled.        *)
(* The market-data provider and the indicator library are outside the      *)
(* repository: what they return is an input (a table of cells, each a      *)
(* number or NaN), and any of their calls may raise.                       *)
(***************************************************************************)
EXTENDS Integers, Sequences, FiniteSets, TLC

VARIABLES
    tickers,          \* the batch: per ticker, what the provider and the indicator calls deliver
    idx,              \* position of the for loop (1-based index of the current ticker)
    pc,               \* "loop" while iterating, "returned" after a return statement
    all_data,         \* records appended so far (rows of the all_data frame)
    plots,            \* keys of the plots dict
    warnings,         \* st.warning calls, in order
    errors,           \* st.error calls, in order
    result,           \* the returned pair (data, plots)
    high_volatility,  \* locals of the function; they survive from one iteration to the next
    weights,
    conditions,
    score,
    buy_threshold,
    sell_threshold,
    signal

vars == <<tickers, idx, pc, all_data, plots, warnings, errors, result,
          high_volatility, weights, conditions, score, buy_threshold,
          sell_threshold, signal>>

locals == <<high_volatility, weights, conditions, score, buy_threshold,
            sell_threshold, signal>>

\* ------------------------------------------------------------------ bounds
MaxTickers == 3
MaxBars == 2

\* ------------------------------------------------------- the indicator table
NaN == -1000000

Cols == {"Close", "SMA_20", "SMA_50", "RSI", "MACD", "MACD_signal", "BB_upper",
         "BB_lower", "ATR", "ADX", "Stoch_K", "Stoch_D", "OBV"}

\* columns produced by a windowed indicator (undefined on the leading bars)
Windowed == Cols \ {"Close", "OBV"}

\* comparisons of cells: any comparison with NaN is False
Gt(a, b) == a # NaN /\ b # NaN /\ a > b
Lt(a, b) == a # NaN /\ b # NaN /\ a < b

\* ta.utils.dropna: keep the rows without an undefined cell
dropna(h) == SelectSeq(h, LAMBDA r : \A c \in Cols : r[c] # NaN)

Last(h) == h[Len(h)]

RECURSIVE SumATR(_, _)
SumATR(h, k) == IF k = 0 THEN 0 ELSE h[k]["ATR"] + SumATR(h, k - 1)

\* atr_threshold = mean(ATR) * 1.5 ; high_volatility = ATR[-1] > atr_threshold
\* (last > 1.5 * sum / n, cleared of the division)
HighVolatility(h) == 2 * Len(h) * Last(h)["ATR"] > 3 * SumATR(h, Len(h))

\* ------------------------------------------------------------------ weights
CondOrder == <<"SMA_20_above_SMA_50", "RSI_below_70", "MACD_above_signal",
               "Close_above_BB_lower", "RSI_above_70", "MACD_below_signal",
               "ADX_above_25", "Stoch_K_above_D", "OBV_increasing">>

Conds == {CondOrder[k] : k \in 1..Len(CondOrder)}

BaseWeights ==
    [SMA_20_above_SMA_50 |-> 300,
     RSI_below_70 |-> 250,
     MACD_above_signal |-> 300,
     Close_above_BB_lower |-> 150,
     RSI_above_70 |-> -200,
     MACD_below_signal |-> -200,
     ADX_above_25 |-> 200,
     Stoch_K_above_D |-> 150,
     OBV_increasing |-> 100]

\* value of a local that no iteration has bound yet (never read by the code)
NoWeights == [c \in Conds |-> 0]
NoConditions == [c \in Conds |-> FALSE]

ResetWeightsCarried(old) == IF old = NoWeights THEN BaseWeights ELSE old

\* line 78: weights is rebound to a new dict literal in every iteration
ResetWeights(old) == BaseWeights

\* lines 90-95
AdjustWeights(w, hv) ==
    IF hv
    THEN [c \in DOMAIN w |->
            IF c \in {"RSI_below_70", "RSI_above_70", "MACD_below_signal"}
            THEN (w[c] * 12) \div 10
            ELSE IF c = "Close_above_BB_lower" THEN (w[c] * 8) \div 10
            ELSE w[c]]
    ELSE w

\* --------------------------------------------------------------- conditions
\* lines 98-109, on the cleaned table h (non-empty)
Conditions(h) ==
    LET r == Last(h) IN
    [SMA_20_above_SMA_50 |-> Gt(r["SMA_20"], r["SMA_50"]),
     RSI_below_70 |-> Lt(r["RSI"], 70),
     MACD_above_signal |-> Gt(r["MACD"], r["MACD_signal"]),
     Close_above_BB_lower |-> Gt(r["Close"], r["BB_lower"]),
     RSI_above_70 |-> Gt(r["RSI"], 70),
     MACD_below_signal |-> Lt(r["MACD"], r["MACD_signal"]),
     ADX_above_25 |-> Gt(r["ADX"], 25),
     Stoch_K_above_D |-> Gt(r["Stoch_K"], r["Stoch_D"]),
     OBV_increasing |-> IF Len(h) > 1 THEN Gt(r["OBV"], h[Len(h) - 1]["OBV"]) ELSE FALSE]

\* line 110
Explanations(conds) == [c \in DOMAIN conds |-> IF conds[c] THEN "Met" ELSE "Not Met"]

RECURSIVE ScoreClampedFrom(_, _, _)
ScoreClampedFrom(conds, w, k) ==
    IF k = 0 THEN 0
    ELSE LET s == ScoreClampedFrom(conds, w, k - 1) +
                  (IF conds[CondOrder[k]] THEN w[CondOrder[k]] ELSE 0)
         IN IF s < 0 THEN 0 ELSE s

RECURSIVE ScoreFrom(_, _, _)
\* lines 97, 112-114: score = 0, then += weights[condition] for each true condition
ScoreFrom(conds, w, k) ==
    IF k = 0 THEN 0
    ELSE ScoreFrom(conds, w, k - 1) + (IF conds[CondOrder[k]] THEN w[CondOrder[k]] ELSE 0)

ScoreClamped(conds, w) == ScoreClampedFrom(conds, w, Len(CondOrder))

Score(conds, w) == ScoreFrom(conds, w, Len(CondOrder))

\* --------------------------------------------------------------- thresholds
BuyBase == 700
SellBase == 300
HoldFloor == 600

ResetBuyThresholdCarried(old) == IF old = 0 THEN BuyBase ELSE old

\* line 116: buy_threshold is rebound to the literal in every iteration
ResetBuyThreshold(old) == BuyBase

\* line 117
ResetSellThreshold(old) == SellBase

\* lines 119-120
AdjustBuyThreshold(b, hv) == IF hv THEN (b * 11) \div 10 ELSE b

\* lines 119, 121
AdjustSellThreshold(b, hv) == IF hv THEN (b * 9) \div 10 ELSE b

SignalHoldFirst(s, buy, sell) ==
    IF HoldFloor <= s /\ s <= buy THEN "Hold"
    ELSE IF s >= buy THEN "Buy"
    ELSE IF s <= sell THEN "Sell"
    ELSE "Don't Buy"

\* line 123
Signal(s, buy, sell) ==
    IF s >= buy THEN "Buy"
    ELSE IF s <= sell THEN "Sell"
    ELSE IF HoldFloor <= s /\ s < buy THEN "Hold"
    ELSE "Don't Buy"

\* lines 126-161: the record of one ticker
Record(t, h, hv, conds, s, sig) ==
    [ticker |-> t,
     score |-> s,
     signal |-> sig,
     last |-> Last(h),
     explanations |-> Explanations(conds),
     hv_dont_buy |-> IF hv /\ sig = "Don't Buy" THEN "Yes" ELSE "No",
     hv_sell |-> IF hv /\ sig = "Sell" THEN "Yes" ELSE "No"]

\* ------------------------------------------------------------------- inputs
\* One ticker's feed: fault tells whether a provider call (lines 43-44,
\* "fetch") or an info/indicator call (lines 50-71, "compute") raises;
\* history is the table after line 71.
Row(close, sma20, sma50, rsi, macd, macdsig, bbl, atr, adx, k, d, obv) ==
    [Close |-> close, SMA_20 |-> sma20, SMA_50 |-> sma50, RSI |-> rsi,
     MACD |-> macd, MACD_signal |-> macdsig, BB_upper |-> bbl + 4,
     BB_lower |-> bbl, ATR |-> atr, ADX |-> adx, Stoch_K |-> k,
     Stoch_D |-> d, OBV |-> obv]

Blank(r, S) == [c \in Cols |-> IF c \in S THEN NaN ELSE r[c]]

ATRVals == {1, 3, 4}
NaNPatterns == {{}, {"SMA_50"}, Windowed}

FullRows ==
    {Row(close, sma20, 11, rsi, macd, 2, 11, atr, adx, k, 50, obv) :
        close \in {10, 12}, sma20 \in {10, 12}, rsi \in {60, 70, 80},
        macd \in {1, 2, 3}, atr \in {3, 4}, adx \in {20, 30},
        k \in {40, 60}, obv \in {100, 200}}

QuietRow(atr) == Row(10, 10, 11, 70, 2, 2, 11, atr, 20, 40, 50, 150)

LastRows == FullRows \cup {Blank(QuietRow(1), S) : S \in NaNPatterns}
PrefixRows == {QuietRow(atr) : atr \in ATRVals} \cup {Blank(QuietRow(1), Windowed)}

RECURSIVE SeqsOf(_, _)
SeqsOf(S, n) ==
    IF n = 0 THEN {<<>>}
    ELSE {Append(s, x) : s \in SeqsOf(S, n - 1), x \in S}

Histories ==
    UNION {{Append(p, l) : p \in SeqsOf(PrefixRows, n), l \in LastRows} : n \in 0..(MaxBars - 1)}

Feed(f, h) == [fault |-> f, history |-> h]

BullRow == Row(12, 12, 11, 60, 3, 2, 11, 1, 30, 60, 50, 200)
BearRow == Row(10, 10, 11, 80, 1, 2, 11, 4, 20, 40, 50, 100)

\* the feeds of the multi-ticker batches
BatchFeeds ==
    {Feed("fetch", <<>>),
     Feed("none", <<>>),
     Feed("compute", <<BullRow>>),
     Feed("none", <<Blank(QuietRow(1), Windowed)>>),
     Feed("none", <<BullRow>>),
     Feed("none", <<QuietRow(1), BearRow>>)}

Batches ==
    UNION {SeqsOf(BatchFeeds, n) : n \in 0..MaxTickers}
    \cup {<<Feed("none", h)>> : h \in Histories}

\* what one iteration of the loop does with a feed
RaisesOn(f) ==
    \/ f.fault = "fetch"
    \/ f.history # <<>> /\ (f.fault = "compute" \/ dropna(f.history) = <<>>)

EmptyHistory(f) == f.fault # "fetch" /\ f.history = <<>>

EvaluatesOk(f) == ~RaisesOn(f) /\ ~EmptyHistory(f)

\* --------------------------------------------------------------------- Init
Init ==
    /\ tickers \in Batches
    /\ idx = 1
    /\ pc = "loop"
    /\ all_data = <<>>
    /\ plots = {}
    /\ warnings = <<>>
    /\ errors = <<>>
    /\ result = [data |-> <<>>, plots |-> {}]
    /\ high_volatility = FALSE
    /\ weights = NoWeights
    /\ conditions = NoConditions
    /\ score = 0
    /\ buy_threshold = 0
    /\ sell_threshold = 0
    /\ signal = ""

\* ------------------------------------------------------------------ actions
\* lines 37-39: empty ticker list
NoTickers ==
    /\ pc = "loop"
    /\ tickers = <<>>
    /\ warnings' = Append(warnings, [kind |-> "no symbols", ticker |-> 0])
    /\ result' = [data |-> all_data, plots |-> plots]
    /\ pc' = "returned"
    /\ UNCHANGED <<tickers, idx, all_data, plots, errors>>
    /\ UNCHANGED locals

\* lines 46-48: history.empty, warning and continue
SkipEmpty ==
    /\ pc = "loop"
    /\ idx <= Len(tickers)
    /\ EmptyHistory(tickers[idx])
    /\ warnings' = Append(warnings, [kind |-> "no data", ticker |-> idx])
    /\ idx' = idx + 1
    /\ UNCHANGED <<tickers, pc, all_data, plots, errors, result>>
    /\ UNCHANGED locals

\* lines 197-200: an exception anywhere in the try block
Raise ==
    /\ pc = "loop"
    /\ idx <= Len(tickers)
    /\ RaisesOn(tickers[idx])
    /\ errors' = Append(errors, idx)
    /\ result' = [data |-> <<>>, plots |-> {}]
    /\ pc' = "returned"
    /\ UNCHANGED <<tickers, idx, all_data, plots, warnings>>
    /\ UNCHANGED locals

HighVolatilityAtLeast(h) == 2 * Len(h) * Last(h)["ATR"] >= 3 * SumATR(h, Len(h))

\* Evaluate with the regime computed a second time (by >=) for the thresholds
EvaluateRegimeTwice ==
    /\ pc = "loop"
    /\ idx <= Len(tickers)
    /\ EvaluatesOk(tickers[idx])
    /\ LET history == dropna(tickers[idx].history)
           hv == HighVolatility(history)
           hv2 == HighVolatilityAtLeast(history)
           w == AdjustWeights(ResetWeights(weights), hv)
           conds == Conditions(history)
           s == Score(conds, w)
           buy == AdjustBuyThreshold(ResetBuyThreshold(buy_threshold), hv2)
           sell == AdjustSellThreshold(ResetSellThreshold(sell_threshold), hv2)
           sig == Signal(s, buy, sell)
       IN /\ high_volatility' = hv
          /\ weights' = w
          /\ conditions' = conds
          /\ score' = s
          /\ buy_threshold' = buy
          /\ sell_threshold' = sell
          /\ signal' = sig
          /\ all_data' = Append(all_data, Record(idx, history, hv, conds, s, sig))
    /\ plots' = plots \cup {idx}
    /\ idx' = idx + 1
    /\ UNCHANGED <<tickers, pc, warnings, errors, result>>

\* lines 73-195: one ticker evaluated to the end of the loop body
Evaluate ==
    /\ pc = "loop"
    /\ idx <= Len(tickers)
    /\ EvaluatesOk(tickers[idx])
    /\ LET history == dropna(tickers[idx].history)
           hv == HighVolatility(history)
           w == AdjustWeights(ResetWeights(weights), hv)
           conds == Conditions(history)
           s == Score(conds, w)
           buy == AdjustBuyThreshold(ResetBuyThreshold(buy_threshold), hv)
           sell == AdjustSellThreshold(ResetSellThreshold(sell_threshold), hv)
           sig == Signal(s, buy, sell)
       IN /\ high_volatility' = hv
          /\ weights' = w
          /\ conditions' = conds
          /\ score' = s
          /\ buy_threshold' = buy
          /\ sell_threshold' = sell
          /\ signal' = sig
          /\ all_data' = Append(all_data, Record(idx, history, hv, conds, s, sig))
    /\ plots' = plots \cup {idx}
    /\ idx' = idx + 1
    /\ UNCHANGED <<tickers, pc, warnings, errors, result>>

\* line 202
Return ==
    /\ pc = "loop"
    /\ tickers # <<>>
    /\ idx > Len(tickers)
    /\ result' = [data |-> all_data, plots |-> plots]
    /\ pc' = "returned"
    /\ UNCHANGED <<tickers, idx, all_data, plots, warnings, errors>>
    /\ UNCHANGED locals

Next == NoTickers \/ SkipEmpty \/ Raise \/ Evaluate \/ Return

Spec == Init /\ [][Next]_vars

\* =============================================================== properties
\* the locals are bound once some iteration has run to its end; they then
\* belong to the ticker of the newest record
Evaluated == all_data # <<>>
LatestTicker == Last(all_data).ticker

HasRecord(data, t) == \E k \in 1..Len(data) : data[k].ticker = t
Logged(log, t) == \E k \in 1..Len(log) : log[k] = t
Warned(t) == \E k \in 1..Len(warnings) : warnings[k] = [kind |-> "no data", ticker |-> t]

\* ticker t has been taken up by the loop (to its end, or to the except clause)
Attempted(t) == t < idx \/ (t = idx /\ Logged(errors, t))

\* the columns a condition reads
Reads(c) ==
    CASE c = "SMA_20_above_SMA_50" -> {"SMA_20", "SMA_50"}
      [] c = "RSI_below_70" -> {"RSI"}
      [] c = "MACD_above_signal" -> {"MACD", "MACD_signal"}
      [] c = "Close_above_BB_lower" -> {"Close", "BB_lower"}
      [] c = "RSI_above_70" -> {"RSI"}
      [] c = "MACD_below_signal" -> {"MACD", "MACD_signal"}
      [] c = "ADX_above_25" -> {"ADX"}
      [] c = "Stoch_K_above_D" -> {"Stoch_K", "Stoch_D"}
      [] c = "OBV_increasing" -> {"OBV"}

\* the columns with no defined value on any bar
UndefinedCols(h) == {c \in Cols : \A k \in 1..Len(h) : h[k][c] = NaN}

HighWeights ==
    [SMA_20_above_SMA_50 |-> 300,
     RSI_below_70 |-> 300,
     MACD_above_signal |-> 300,
     Close_above_BB_lower |-> 120,
     RSI_above_70 |-> -240,
     MACD_below_signal |-> -240,
     ADX_above_25 |-> 200,
     Stoch_K_above_D |-> 150,
     OBV_increasing |-> 100]

\* C1: when the function has returned, every ticker of the batch whose own
\* evaluation succeeds has its record in the returned data, and every ticker
\* whose evaluation raises is left out: one failure never aborts the batch.
C1_FailureIsolated ==
    pc = "returned" =>
        \A t \in 1..Len(tickers) :
            /\ EvaluatesOk(tickers[t]) => HasRecord(result.data, t)
            /\ RaisesOn(tickers[t]) => ~HasRecord(result.data, t)

\* C2: the signal is the first match of Buy (score >= buy_threshold), Sell
\* (score <= sell_threshold), Hold (0.6 <= score < buy_threshold), Don't Buy;
\* so the four bands are disjoint, Hold never meets Buy or Sell, and every
\* score strictly between sell_threshold and 0.6 gives Don't Buy.
C2_SignalBands ==
    Evaluated =>
        /\ signal \in {"Buy", "Sell", "Hold", "Don't Buy"}
        /\ signal = "Buy" <=> score >= buy_threshold
        /\ signal = "Sell" <=> (score < buy_threshold /\ score <= sell_threshold)
        /\ signal = "Hold" <=> (HoldFloor <= score /\ score < buy_threshold)
        /\ signal = "Hold" => score > sell_threshold
        /\ signal = "Don't Buy" <=> (sell_threshold < score /\ score < HoldFloor)
        /\ Last(all_data).signal = signal

C2_Witness ==
    /\ Evaluated
    /\ high_volatility
    /\ signal = "Don't Buy"
    /\ sell_threshold < score
    /\ score < HoldFloor

\* C3: a single-bar series (all windowed indicators undefined) is evaluated
\* without raising, with regime Normal and signal Don't Buy; and whenever
\* all nine conditions are false the score is 0 and the signal is Don't Buy.
C3_SingleBarDontBuy ==
    /\ \A t \in 1..Len(tickers) :
         LET f == tickers[t] IN
         (/\ Attempted(t)
          /\ f.fault = "none"
          /\ Len(f.history) = 1
          /\ \A c \in Windowed : f.history[1][c] = NaN)
         => /\ ~Logged(errors, t)
            /\ HasRecord(all_data, t)
            /\ \A k \in 1..Len(all_data) :
                 all_data[k].ticker = t => all_data[k].signal = "Don't Buy"
            /\ LatestTicker = t => ~high_volatility
    /\ (Evaluated /\ \A c \in Conds : ~conditions[c])
         => score = 0 /\ signal = "Don't Buy"

\* C4: a non-empty series on which some indicator has no defined value on
\* any bar is evaluated without raising, and its record marks every
\* condition that reads such an indicator "Not Met".
C4_ShortHistoryDegrades ==
    \A t \in 1..Len(tickers) :
        LET f == tickers[t] IN
        (/\ Attempted(t)
         /\ f.fault = "none"
         /\ f.history # <<>>
         /\ UndefinedCols(f.history) # {})
        => /\ ~Logged(errors, t)
           /\ HasRecord(all_data, t)
           /\ \A k \in 1..Len(all_data) :
                all_data[k].ticker = t =>
                    \A c \in Conds :
                        Reads(c) \cap UndefinedCols(f.history) # {}
                            => all_data[k].explanations[c] = "Not Met"

\* C5: a ticker with zero bars is skipped with a warning, gets no record and
\* no plot, and the records the later tickers collect are in the returned
\* result.
C5_EmptyHistorySkipped ==
    \A t \in 1..Len(tickers) :
        (Attempted(t) /\ EmptyHistory(tickers[t]))
        => /\ Warned(t)
           /\ ~HasRecord(all_data, t)
           /\ t \notin plots
           /\ pc = "returned" =>
                \A u \in (t + 1)..Len(tickers) :
                    HasRecord(all_data, u) => HasRecord(result.data, u)

\* C6: after every evaluation the weights are exactly the nine base values
\* under Normal, and under High the base values with RSI_below_70,
\* RSI_above_70, MACD_below_signal times 1.2 and Close_above_BB_lower times
\* 0.8; whatever the earlier tickers of the batch were, the adjustment is
\* never applied a second time.
C6_WeightsFromBase ==
    Evaluated =>
        /\ high_volatility => weights = HighWeights
        /\ ~high_volatility => weights = BaseWeights

C6_Witness ==
    /\ Len(all_data) >= 2
    /\ all_data[Len(all_data) - 1].hv_sell = "Yes"
    /\ high_volatility
    /\ weights["RSI_above_70"] = -240

\* C7: at every classification sell_threshold < 0.6 <= buy_threshold, with
\* 0.30 / 0.70 under Normal and 0.27 / 0.77 under High, whatever the earlier
\* tickers of the batch were.
C7_ThresholdOrdering ==
    Evaluated =>
        /\ sell_threshold < HoldFloor
        /\ HoldFloor <= buy_threshold
        /\ high_volatility => (buy_threshold = 770 /\ sell_threshold = 270)
        /\ ~high_volatility => (buy_threshold = 700 /\ sell_threshold = 300)

C7_Witness ==
    /\ Len(all_data) >= 2
    /\ all_data[Len(all_data) - 1].hv_sell = "Yes"
    /\ high_volatility
    /\ buy_threshold = 770
    /\ sell_threshold = 270

\* the defined ATR values of the cleaned table, and the regime they call for
AtrHigh(h) ==
    /\ Len(h) >= 2
    /\ 2 * Len(h) * Last(h)["ATR"] > 3 * SumATR(h, Len(h))

\* C8: every evaluated series gets a regime: High exactly when the latest
\* ATR is strictly above 1.5 times the mean ATR, Normal when it equals it,
\* and Normal when ATR has fewer than two defined values.
C8_VolatilityRegime ==
    \A t \in 1..Len(tickers) :
        LET f == tickers[t] IN
        (Attempted(t) /\ f.fault = "none" /\ f.history # <<>>)
        => /\ ~Logged(errors, t)
           /\ HasRecord(all_data, t)
           /\ LatestTicker = t =>
                (high_volatility <=> AtrHigh(dropna(f.history)))

MaxBump == 2

Term(c) == IF conditions[c] THEN weights[c] ELSE 0

\* C9: the score is the sum of the adjusted weights of the true conditions,
\* unclamped, and raising the weight of a true condition never lowers it.
C9_ScoreIsWeightedSum ==
    Evaluated =>
        /\ score = Term("SMA_20_above_SMA_50") + Term("RSI_below_70")
                   + Term("MACD_above_signal") + Term("Close_above_BB_lower")
                   + Term("RSI_above_70") + Term("MACD_below_signal")
                   + Term("ADX_above_25") + Term("Stoch_K_above_D")
                   + Term("OBV_increasing")
        /\ Last(all_data).score = score
        /\ \A c \in Conds : \A d \in 1..MaxBump :
             conditions[c] =>
                 Score(conditions, [weights EXCEPT ![c] = @ + d]) >= score

C9_Witness ==
    /\ Len(all_data) >= 2
    /\ all_data[Len(all_data) - 1].score < 0
    /\ score > 1000

\* C10: in every evaluation one regime value gates the weights, the
\* thresholds and the two "High Volatility" flags of the record.
C10_OneRegime ==
    Evaluated =>
        /\ weights = HighWeights <=> high_volatility
        /\ (buy_threshold = 770 /\ sell_threshold = 270) <=> high_volatility
        /\ (buy_threshold = 700 /\ sell_threshold = 300) <=> ~high_volatility
        /\ Last(all_data).hv_dont_buy = "Yes" <=> (high_volatility /\ signal = "Don't Buy")
        /\ Last(all_data).hv_sell = "Yes" <=> (high_volatility /\ signal = "Sell")

C10_Witness ==
    /\ Evaluated
    /\ ~high_volatility
    /\ Len(tickers[LatestTicker].history) = 2
    /\ LET h == dropna(tickers[LatestTicker].history)
       IN Len(h) = 2 /\ 2 * 2 * h[2]["ATR"] = 3 * (h[1]["ATR"] + h[2]["ATR"])
    /\ buy_threshold = 700

====
